---- MODULE Spec2Model ----
(***************************************************************************)
(* Model of the Easy Digital Downloads REST client (src/src/edd-client.ts): *)
(* URL construction, the retrying request loop and the endpoint methods    *)
(* that unwrap the response envelopes.                                     *)
(***************************************************************************)
EXTENDS Integers, Sequences, FiniteSets, TLC

VARIABLES
    config,     \* EDDClient fields apiUrl, apiKey, apiToken
    pc,         \* position of the current invocation
    method,     \* endpoint method (or "request") being executed
    params,     \* parameter map handed to buildUrl / buildPublicUrl
    url,        \* URL handed to request()
    retries,    \* retry budget of the current request()
    attempt,    \* loop counter of request()
    lastError,  \* lastError of request()
    args,       \* arguments of the endpoint method
    events,     \* transport invocations and backoff waits, in order
    responses,  \* what the transport answered, one entry per settled attempt
    outcome,    \* how request() ended
    result,     \* how the endpoint method ended
    requests,   \* calls of request() made by the current invocation
    tool,       \* registered tool being served ("none" for a direct client call)
    toolArgs,   \* arguments of the tool invocation
    toolResult, \* what the tool handler handed back
    env,        \* process.env settings read at startup
    boot,       \* position of the startup sequence of index.ts
    inv         \* concurrently running client invocations

vars == <<config, pc, method, args, params, url, retries, attempt, lastError,
          events, responses, outcome, result, requests, tool, toolArgs, toolResult,
          env, boot, inv>>

\* the state of a single client invocation and of the tool serving it
client == <<pc, method, args, params, url, retries, attempt, lastError, events, responses,
            outcome, result, requests, tool, toolArgs, toolResult>>

\* what a client invocation never touches
startup == <<env, boot, inv>>

-----------------------------------------------------------------------------
(* Bounds *)

MaxRetries == 4

-----------------------------------------------------------------------------
(* JavaScript values *)

Undefined == [t |-> "undefined"]
Null == [t |-> "null"]
Num(n) == [t |-> "number", n |-> n]
Str(s) == [t |-> "string", s |-> s]
Arr(items) == [t |-> "array", items |-> items]
Obj(entries) == [t |-> "object", entries |-> entries]

\* String(value) for the two defined parameter types
String(x) == IF x.t = "number" THEN ToString(x.n) ELSE x.s

\* JavaScript truthiness
Truthy(x) ==
    CASE x.t = "undefined" -> FALSE
      [] x.t = "null" -> FALSE
      [] x.t = "number" -> x.n # 0
      [] x.t = "string" -> x.s # ""
      [] OTHER -> TRUE

\* Property read obj[key] on an object given as its ordered entries
RECURSIVE GetFrom(_, _, _)
GetFrom(entries, key, i) ==
    IF i > Len(entries) THEN Undefined
    ELSE IF entries[i].k = key THEN entries[i].v
    ELSE GetFrom(entries, key, i + 1)

Get(obj, key) == GetFrom(obj.entries, key, 1)

Has(obj, key) == \E i \in 1..Len(obj.entries) : obj.entries[i].k = key

-----------------------------------------------------------------------------
(* Errors *)

Err(name, message) == [name |-> name, message |-> message]
NoError == [name |-> "none", message |-> ""]

-----------------------------------------------------------------------------
(* URLs: new URL(endpoint, base) and URLSearchParams.set *)

\* Resolution of a one-segment relative directory reference ("sales/")
\* against the base: the base's last segment is dropped unless its path
\* ends with "/", and the base's query is not inherited.
ResolveUrl(endpoint, base) ==
    [origin |-> base.origin,
     path   |-> (IF base.slash \/ Len(base.path) = 0
                 THEN base.path
                 ELSE SubSeq(base.path, 1, Len(base.path) - 1)) \o <<endpoint>>,
     slash  |-> TRUE,
     query  |-> <<>>]

RECURSIVE DropName(_, _)
DropName(q, name) ==
    IF q = <<>> THEN <<>>
    ELSE IF Head(q).name = name THEN DropName(Tail(q), name)
    ELSE <<Head(q)>> \o DropName(Tail(q), name)

RECURSIVE SetFirst(_, _, _)
SetFirst(q, name, value) ==
    IF q = <<>> THEN <<>>
    ELSE IF Head(q).name = name
         THEN <<[name |-> name, value |-> value]>> \o DropName(Tail(q), name)
         ELSE <<Head(q)>> \o SetFirst(Tail(q), name, value)

\* url.searchParams.set(name, value)
SearchParamsSet(u, name, value) ==
    [u EXCEPT !.query =
        IF \E i \in 1..Len(u.query) : u.query[i].name = name
        THEN SetFirst(u.query, name, value)
        ELSE Append(u.query, [name |-> name, value |-> value])]

\* AddParams without the test for undefined
RECURSIVE AddParamsNoSkip(_, _)
AddParamsNoSkip(u, ps) ==
    IF ps = <<>> THEN u
    ELSE AddParamsNoSkip(SearchParamsSet(u, Head(ps).k,
                             IF Head(ps).v = Undefined THEN "undefined"
                             ELSE String(Head(ps).v)),
                         Tail(ps))

\* the loop over Object.entries(params)
RECURSIVE AddParams(_, _)
AddParams(u, ps) ==
    IF ps = <<>> THEN u
    ELSE AddParams(IF Head(ps).v # Undefined
                   THEN SearchParamsSet(u, Head(ps).k, String(Head(ps).v))
                   ELSE u,
                   Tail(ps))

buildUrl(cfg, endpoint, ps) ==
    AddParams(
        SearchParamsSet(
            SearchParamsSet(ResolveUrl(endpoint, cfg.apiUrl), "key", cfg.apiKey),
            "token", cfg.apiToken),
        ps)

buildPublicUrl(cfg, endpoint, ps) ==
    AddParams(ResolveUrl(endpoint, cfg.apiUrl), ps)

\* values of the query parameter `name` in a URL
QueryValues(u, name) ==
    {u.query[i].value : i \in {j \in 1..Len(u.query) : u.query[j].name = name}}

QueryCount(u, name) ==
    Cardinality({j \in 1..Len(u.query) : u.query[j].name = name})

-----------------------------------------------------------------------------
(* What the transport (fetch) can answer *)

Reject(isError, name, message) ==
    [name |-> name, message |-> message, isError |-> isError, kind |-> "reject",
     status |-> 0, statusText |-> "", body |-> Undefined]

Response(status, statusText, body) ==
    [name |-> "", message |-> "", isError |-> FALSE, kind |-> "response",
     status |-> status, statusText |-> statusText, body |-> body]

\* response.json() rejects (the body is not JSON)
InvalidJson == [t |-> "invalid"]

\* response.ok
Ok(status) == status \in 200..299

Rec(id) == Obj(<<[k |-> "ID", v |-> Num(id)]>>)
ItemSeqs == {<<>>, <<Rec(1)>>, <<Rec(2), Rec(1)>>}
ResourceKeys == {"products", "sales", "customers", "discounts", "download_logs"}
Speed == [k |-> "request_speed", v |-> Num(1)]

Envelope(key, items) == Obj(<<[k |-> key, v |-> Arr(items)], Speed>>)
ErrorBody(text) == Obj(<<[k |-> "error", v |-> Str(text)]>>)
ErrorTexts == {"Invalid API key"}

StatObj == Obj(<<[k |-> "current_month", v |-> Num(50)], [k |-> "totals", v |-> Num(1000)]>>)
StatsTypes == {"sales", "earnings"}
StatsBodies ==
    {Obj(<<[k |-> "stats", v |-> Obj(<<[k |-> ty, v |-> StatObj]>>)]>>) : ty \in StatsTypes}
    \cup {Obj(<<[k |-> ty, v |-> StatObj], Speed>>) : ty \in StatsTypes}
    \cup {Obj(<<[k |-> "2025-01-01", v |-> Num(100)], [k |-> "2025-01-02", v |-> Num(150)],
                Speed, [k |-> "totals", v |-> Num(250)]>>),
          Obj(<<[k |-> "Plugin A", v |-> Num(5)], Speed,
                [k |-> "Plugin B", v |-> Num(0)], [k |-> "note", v |-> Str("n/a")]>>)}

Bodies ==
    {Obj(<<>>)}
    \cup {Envelope(key, items) : key \in ResourceKeys, items \in ItemSeqs}
    \cup {ErrorBody(text) : text \in ErrorTexts \cup {""}}
    \cup StatsBodies

Answers ==
    {Reject(TRUE, "TypeError", "fetch failed"), Reject(FALSE, "", "ECONNRESET")}
    \cup {Response(500, "Internal Server Error", Obj(<<>>)),
          Response(503, "Service Unavailable", Obj(<<>>))}
    \cup {Response(200, "OK", body) : body \in Bodies \cup {InvalidJson, Null}}

-----------------------------------------------------------------------------
(* request(): one pass through the try block *)

\* TryError without the check of data.error
TryErrorNoApiCheck(answer) ==
    IF answer.kind = "reject"
    THEN IF answer.isError THEN Err(answer.name, answer.message)
         ELSE Err("Error", answer.message)
    ELSE IF ~Ok(answer.status)
    THEN Err("Error", "HTTP " \o ToString(answer.status) \o ": " \o answer.statusText)
    ELSE IF answer.body = InvalidJson
    THEN Err("SyntaxError", "Unexpected token < in JSON at position 0")
    ELSE IF answer.body = Null
    THEN Err("TypeError", "Cannot read properties of null (reading 'error')")
    ELSE NoError

\* the error the try block throws for an answer, NoError when it returns
TryError(answer) ==
    IF answer.kind = "reject"
    THEN \* lastError = error instanceof Error ? error : new Error(String(error))
         IF answer.isError THEN Err(answer.name, answer.message)
         ELSE Err("Error", answer.message)
    ELSE IF ~Ok(answer.status)
    THEN Err("Error", "HTTP " \o ToString(answer.status) \o ": " \o answer.statusText)
    ELSE IF answer.body = InvalidJson
    THEN Err("SyntaxError", "Unexpected token < in JSON at position 0")
    ELSE IF answer.body = Null
    THEN Err("TypeError", "Cannot read properties of null (reading 'error')")
    ELSE IF Truthy(Get(answer.body, "error"))
    THEN Err("Error", "EDD API Error: " \o Get(answer.body, "error").s)
    ELSE NoError

\* Caught keeping the first error instead of the latest
CaughtKeepsFirst(prev, e) == IF prev = NoError THEN e ELSE prev

\* lastError = <the error just caught>
Caught(prev, e) == e

\* BackoffMs with the exponent off by one
BackoffMsDoubled(a) == (2 ^ a) * 1000

\* Math.pow(2, attempt - 1) * 1000
BackoffMs(a) == (2 ^ (a - 1)) * 1000

\* WaitsAfter that also waits after the final attempt
WaitsAfterAlways(a, r) == a <= r

\* if (attempt < retries)
WaitsAfter(a, r) == a < r

\* LoopRuns stopping one attempt early
LoopRunsOneShort(a, r) == a < r

\* the loop condition attempt <= retries
LoopRuns(a, r) == a <= r

\* FinalError dropping the captured error
FinalErrorAlwaysGeneric(e) == Err("Error", "Request failed after retries")

\* throw lastError || new Error('Request failed after retries')
FinalError(e) == IF e # NoError THEN e ELSE Err("Error", "Request failed after retries")

\* DefaultRetries one attempt too generous
DefaultRetriesFour == 3 + 1

DefaultRetries == 3

\* FetchEvent sending POST
FetchEventPost(u) == [url |-> u, ev |-> "fetch", httpMethod |-> "POST", ms |-> 0]

\* fetch(url, { method: 'GET', headers: { Accept: 'application/json' } })
FetchEvent(u) == [url |-> u, ev |-> "fetch", httpMethod |-> "GET", ms |-> 0]
WaitEvent(u, ms) == [url |-> u, ev |-> "wait", httpMethod |-> "", ms |-> ms]

Returned(v) == [value |-> v, kind |-> "return", error |-> NoError]
Thrown(e) == [value |-> Undefined, kind |-> "throw", error |-> e]
Pending == [value |-> Undefined, kind |-> "pending", error |-> NoError]

-----------------------------------------------------------------------------
(* Endpoint methods: the parameter map each one builds its URL from *)

P(k, v) == [k |-> k, v |-> v]

Nums == {Num(0), Num(42)}
OptNums == {Undefined} \cup Nums
OptCounts == {Undefined, Num(5)}
OptPages == {Undefined, Num(2)}
Emails == {Str("a@b.co")}
OptEmails == {Undefined} \cup Emails
PurchaseKeys == {Str("8f3c2a")}
OptDates == {Undefined, Str("20250101")}
Dates == {Str("20250101")}

listProductsParams(options) == <<P("number", options.number), P("product", options.product)>>
getProductParams(productId) == <<P("product", productId)>>
listSalesParams(options) ==
    <<P("number", options.number), P("page", options.page), P("email", options.email),
      P("startdate", options.startdate), P("enddate", options.enddate)>>
getSaleByIdParams(saleId) == <<P("id", saleId)>>
getSaleByKeyParams(purchaseKey) == <<P("key", purchaseKey)>>
\* this.listSales({ ...options, email })
searchSalesByEmailParams(email, options) ==
    <<P("number", options.number), P("page", options.page), P("email", email)>>
listCustomersParams(options) == <<P("number", options.number), P("page", options.page)>>
getCustomerByIdParams(customerId) == <<P("customer", customerId)>>
getCustomerByEmailParams(email) == <<P("email", email)>>
getStatsParams(type) == <<P("type", Str(type))>>
getStatsByDateRangeParams(type, startDate, endDate) ==
    <<P("type", Str(type)), P("date", Str("range")),
      P("startdate", startDate), P("enddate", endDate)>>
\* product: productId ?? 'all'
getStatsByProductParams(type, productId) ==
    <<P("type", Str(type)),
      P("product", IF productId = Undefined \/ productId = Null THEN Str("all") ELSE productId)>>
listDiscountsParams(options) == <<P("number", options.number)>>
getDiscountParams(discountId) == <<P("discount", discountId)>>
getDownloadLogsParams(options) ==
    <<P("number", options.number), P("product", options.product),
      P("customer", options.customer)>>

PublicMethods == {"listProducts", "getProduct"}
AuthMethods ==
    {"listSales", "getSaleById", "getSaleByKey", "searchSalesByEmail",
     "listCustomers", "getCustomerById", "getCustomerByEmail",
     "getStats", "getStatsByDateRange", "getStatsByProduct",
     "listDiscounts", "getDiscount", "getDownloadLogs"}

\* the endpoint literal each method passes to buildUrl / buildPublicUrl
Endpoint(m) ==
    CASE m \in {"listProducts", "getProduct"} -> "products"
      [] m \in {"listSales", "getSaleById", "getSaleByKey", "searchSalesByEmail"} -> "sales"
      [] m \in {"listCustomers", "getCustomerById", "getCustomerByEmail"} -> "customers"
      [] m \in {"getStats", "getStatsByDateRange", "getStatsByProduct"} -> "stats"
      [] m \in {"listDiscounts", "getDiscount"} -> "discounts"
      [] m = "getDownloadLogs" -> "file-download-logs"

\* MethodUrl authenticating the products endpoint too
MethodUrlAlwaysAuth(cfg, m, ps) == buildUrl(cfg, Endpoint(m), ps)

\* which of the two builders the method calls
MethodUrl(cfg, m, ps) ==
    IF m \in PublicMethods
    THEN buildPublicUrl(cfg, Endpoint(m), ps)
    ELSE buildUrl(cfg, Endpoint(m), ps)

-----------------------------------------------------------------------------
(* Endpoint methods: what each one makes of the decoded body *)

\* IndexZero taking the last element
IndexLast(value) ==
    IF value.t = "array" /\ Len(value.items) > 0 THEN value.items[Len(value.items)]
    ELSE Undefined

\* value[0] of an array (undefined when the array is empty)
IndexZero(value) ==
    IF value.t = "array" /\ Len(value.items) > 0 THEN value.items[1] ELSE Undefined

\* a || b
OrElse(a, b) == IF Truthy(a) THEN a ELSE b

\* value?.[0] || null
FirstOrNull(value) ==
    IF value = Undefined \/ value = Null THEN Null
    ELSE OrElse(IndexZero(value), Null)

listProductsResult(data) == Returned(Get(data, "products"))

\* products[0] || null on what listProducts returned
getProductResult(data) ==
    LET products == listProductsResult(data).value
    IN  IF products = Undefined \/ products = Null
        THEN Thrown(Err("TypeError", "Cannot read properties of undefined (reading '0')"))
        ELSE Returned(OrElse(IndexZero(products), Null))

listSalesResult(data) == Returned(OrElse(Get(data, "sales"), Arr(<<>>)))
getSaleByIdResult(data) == Returned(FirstOrNull(Get(data, "sales")))
getSaleByKeyResult(data) == Returned(FirstOrNull(Get(data, "sales")))
listCustomersResult(data) == Returned(OrElse(Get(data, "customers"), Arr(<<>>)))
getCustomerByIdResult(data) == Returned(FirstOrNull(Get(data, "customers")))
getCustomerByEmailResult(data) == Returned(FirstOrNull(Get(data, "customers")))
listDiscountsResult(data) == Returned(OrElse(Get(data, "discounts"), Arr(<<>>)))
getDiscountResult(data) == Returned(FirstOrNull(Get(data, "discounts")))
getDownloadLogsResult(data) == Returned(OrElse(Get(data, "download_logs"), Arr(<<>>)))

\* getStatsResult handing back the flat response as it came
getStatsResultWholeFlat(type, data) ==
    IF Has(data, "stats") /\ Truthy(Get(data, "stats"))
    THEN Returned(Get(data, "stats"))
    ELSE Returned(data)

getStatsResult(type, data) ==
    IF Has(data, "stats") /\ Truthy(Get(data, "stats"))
    THEN Returned(Get(data, "stats"))
    ELSE Returned(Obj(<<[k |-> type, v |-> Get(data, type)]>>))

RECURSIVE WithoutKeys(_, _)
WithoutKeys(entries, keys) ==
    IF entries = <<>> THEN <<>>
    ELSE IF Head(entries).k \in keys THEN WithoutKeys(Tail(entries), keys)
    ELSE <<Head(entries)>> \o WithoutKeys(Tail(entries), keys)

\* getStatsByDateRangeResult dropping only the timing field
getStatsByDateRangeKeepsTotals(data) ==
    Returned(Obj(WithoutKeys(data.entries, {"request_speed"})))

\* const { request_speed, totals, ...dateData } = response
getStatsByDateRangeResult(data) ==
    Returned(Obj(WithoutKeys(data.entries, {"request_speed", "totals"})))

\* ProductPairs that also leaves out the totals field
RECURSIVE ProductPairsNoTotals(_)
ProductPairsNoTotals(entries) ==
    IF entries = <<>> THEN <<>>
    ELSE IF Head(entries).k \notin {"request_speed", "totals"} /\ Head(entries).v.t = "number"
         THEN <<Obj(<<[k |-> "name", v |-> Str(Head(entries).k)],
                      [k |-> "value", v |-> Head(entries).v]>>)>>
              \o ProductPairsNoTotals(Tail(entries))
         ELSE ProductPairsNoTotals(Tail(entries))

RECURSIVE ProductPairs(_)
ProductPairs(entries) ==
    IF entries = <<>> THEN <<>>
    ELSE IF Head(entries).k # "request_speed" /\ Head(entries).v.t = "number"
         THEN <<Obj(<<[k |-> "name", v |-> Str(Head(entries).k)],
                      [k |-> "value", v |-> Head(entries).v]>>)>>
              \o ProductPairs(Tail(entries))
         ELSE ProductPairs(Tail(entries))

getStatsByProductResult(data) == Returned(Arr(ProductPairs(data.entries)))

\* the continuation of the endpoint method once request() has returned data
Unwrap(m, a, data) ==
    CASE m = "request" -> Returned(data)
      [] m = "listProducts" -> listProductsResult(data)
      [] m = "getProduct" -> getProductResult(data)
      [] m \in {"listSales", "searchSalesByEmail"} -> listSalesResult(data)
      [] m = "getSaleById" -> getSaleByIdResult(data)
      [] m = "getSaleByKey" -> getSaleByKeyResult(data)
      [] m = "listCustomers" -> listCustomersResult(data)
      [] m = "getCustomerById" -> getCustomerByIdResult(data)
      [] m = "getCustomerByEmail" -> getCustomerByEmailResult(data)
      [] m = "getStats" -> getStatsResult(a.type, data)
      [] m = "getStatsByDateRange" -> getStatsByDateRangeResult(data)
      [] m = "getStatsByProduct" -> getStatsByProductResult(data)
      [] m = "listDiscounts" -> listDiscountsResult(data)
      [] m = "getDiscount" -> getDiscountResult(data)
      [] m = "getDownloadLogs" -> getDownloadLogsResult(data)

-----------------------------------------------------------------------------
(* Tool handlers of index.ts: what each hands back once its client call ended *)

\* { content: [{ type: 'text', text }] } with a literal message
Text(message) == [kind |-> "content", text |-> Str(message), error |-> NoError]

\* { content: [{ type: 'text', text: JSON.stringify(value, null, 2) }] }
Json(value) == [kind |-> "content", text |-> [t |-> "json", value |-> value], error |-> NoError]

\* a ?? b
Nullish(a, b) == IF a = Undefined \/ a = Null THEN b ELSE a

\* MissingBoth that never reports a missing parameter
MissingBothNever(id, alternate) == FALSE

\* if (!saleId && !purchaseKey), if (!customerId && !email)
MissingBoth(id, alternate) == ~Truthy(id) /\ ~Truthy(alternate)

\* saleId ? getSaleById : getSaleByKey, customerId ? getCustomerById : getCustomerByEmail
ById(id) == Truthy(id)


\* the identifying field the summaries of the list tools copy from a record
RECURSIVE SummaryOf(_)
SummaryOf(items) ==
    IF items = <<>> THEN <<>>
    ELSE <<Obj(<<[k |-> "id", v |-> Get(Head(items), "ID")]>>)>> \o SummaryOf(Tail(items))

\* list.map(...) and list.length of a list tool; a TypeError when the client
\* returned no array
ListSummary(field, list) ==
    IF list.t # "array"
    THEN Thrown(Err("TypeError", "Cannot read properties of undefined (reading 'map')"))
    ELSE Json(Obj(<<[k |-> "count", v |-> Num(Len(list.items))],
                    [k |-> field, v |-> Arr(SummaryOf(list.items))]>>))

RECURSIVE SumValues(_)
SumValues(vs) ==
    IF vs = <<>> THEN 0
    ELSE (IF Head(vs).t = "number" THEN Head(vs).n ELSE 0) + SumValues(Tail(vs))

RECURSIVE ValuesOf(_)
ValuesOf(entries) ==
    IF entries = <<>> THEN <<>> ELSE <<Head(entries).v>> \o ValuesOf(Tail(entries))

RECURSIVE PairValues(_)
PairValues(items) ==
    IF items = <<>> THEN <<>>
    ELSE <<Get(Head(items), "value")>> \o PairValues(Tail(items))

\* FoundOr without the test for a missing entity
FoundOrAlwaysJson(entity, message) == Json(entity)

\* if (!entity) return <not found message>; return JSON.stringify(entity)
FoundOr(entity, message) == IF ~Truthy(entity) THEN Text(message) ELSE Json(entity)

\* the handler's code after `await edd.<method>(...)`; a rejected client call
\* rejects the handler
ToolFinish(t, a, res) ==
    IF t = "none" THEN Pending
    ELSE IF res.kind = "throw" THEN Thrown(res.error)
    ELSE CASE t = "edd_list_products" -> ListSummary("products", res.value)
           [] t = "edd_get_product" ->
                FoundOr(res.value, "Product " \o ToString(a.productId.n) \o " not found")
           [] t = "edd_list_sales" -> ListSummary("sales", res.value)
           [] t = "edd_get_sale" -> FoundOr(res.value, "Sale not found")
           [] t = "edd_list_customers" -> ListSummary("customers", res.value)
           [] t = "edd_get_customer" -> FoundOr(res.value, "Customer not found")
           [] t = "edd_get_stats" ->
                Json(Obj(<<[k |-> "type", v |-> Str(a.type)], [k |-> "stats", v |-> res.value]>>))
           [] t = "edd_get_stats_by_date" ->
                Json(Obj(<<[k |-> "type", v |-> Str(a.type)],
                           [k |-> "startDate", v |-> a.startDate],
                           [k |-> "endDate", v |-> a.endDate],
                           [k |-> "total", v |-> Num(SumValues(ValuesOf(res.value.entries)))],
                           [k |-> "daily", v |-> res.value]>>))
           [] t = "edd_get_stats_by_product" ->
                Json(Obj(<<[k |-> "type", v |-> Str(a.type)],
                           [k |-> "productId", v |-> Nullish(a.productId, Str("all"))],
                           [k |-> "total", v |-> Num(SumValues(PairValues(res.value.items)))],
                           [k |-> "products", v |-> res.value]>>))
           [] t = "edd_list_discounts" -> ListSummary("discounts", res.value)
           [] t = "edd_get_discount" ->
                FoundOr(res.value, "Discount " \o ToString(a.discountId.n) \o " not found")
           [] t = "edd_get_download_logs" -> ListSummary("logs", res.value)

-----------------------------------------------------------------------------
(* State machine of one client invocation *)

NoEnv == [EDD_API_URL |-> Undefined, EDD_API_KEY |-> Undefined, EDD_API_TOKEN |-> Undefined]

ApiUrls ==
    {[origin |-> "https://example.com", path |-> <<"edd-api">>, slash |-> TRUE, query |-> <<>>],
     [origin |-> "https://example.com", path |-> <<"wp", "edd-api">>, slash |-> FALSE, query |-> <<>>]}

Configs == [apiUrl : ApiUrls, apiKey : {"test-key"}, apiToken : {"test-token"}]

NoUrl == [origin |-> "", path |-> <<>>, slash |-> FALSE, query |-> <<>>]
NoArgs == [none |-> TRUE]

\* new EDDClient(config)
Init ==
    /\ config \in Configs
    /\ pc = "idle"
    /\ method = "none"
    /\ args = NoArgs
    /\ params = <<>>
    /\ url = NoUrl
    /\ retries = 0
    /\ attempt = 0
    /\ lastError = NoError
    /\ events = <<>>
    /\ responses = <<>>
    /\ outcome = Pending
    /\ result = Pending
    /\ requests = 0
    /\ tool = "none"
    /\ toolArgs = NoArgs
    /\ toolResult = Pending
    /\ env = NoEnv
    /\ boot = [error |-> NoError, at |-> "off", missing |-> <<>>]
    /\ inv = <<>>

\* request(url, retries) up to the first await
EnterRequest(u, r) ==
    /\ url' = u
    /\ retries' = r
    /\ attempt' = 1
    /\ lastError' = NoError
    /\ responses' = <<>>
    /\ IF LoopRuns(1, r)
       THEN /\ events' = <<FetchEvent(u)>>
            /\ pc' = "attempting"
            /\ outcome' = Pending
            /\ result' = Pending
            /\ toolResult' = Pending
       ELSE /\ events' = <<>>
            /\ pc' = "done"
            /\ outcome' = Thrown(FinalError(NoError))
            /\ result' = Thrown(FinalError(NoError))
            /\ toolResult' = ToolFinish(tool', toolArgs', Thrown(FinalError(NoError)))
    /\ requests' = requests + 1
    /\ UNCHANGED <<config, startup>>

\* an endpoint method up to the first await of its request
Call(m, a, ps) ==
    /\ pc = "idle"
    /\ method' = m
    /\ args' = a
    /\ params' = ps
    /\ tool' = "none"
    /\ toolArgs' = NoArgs
    /\ EnterRequest(MethodUrl(config, m, ps), DefaultRetries)

\* request() called with an explicit retry budget
request ==
    \E r \in 0..MaxRetries :
        /\ pc = "idle"
        /\ method' = "request"
        /\ args' = NoArgs
        /\ params' = <<>>
        /\ tool' = "none"
        /\ toolArgs' = NoArgs
        /\ EnterRequest(buildUrl(config, "sales", <<>>), r)

listProducts ==
    \E number \in OptCounts, product \in OptNums :
        LET options == [number |-> number, product |-> product]
        IN  Call("listProducts", options, listProductsParams(options))

getProduct ==
    \E productId \in Nums :
        Call("getProduct", [productId |-> productId], getProductParams(productId))

listSales ==
    \E number \in OptCounts, page \in OptPages, email \in OptEmails,
       startdate \in OptDates, enddate \in OptDates :
        LET options == [number |-> number, page |-> page, email |-> email,
                        startdate |-> startdate, enddate |-> enddate]
        IN  Call("listSales", options, listSalesParams(options))

getSaleById ==
    \E saleId \in Nums :
        Call("getSaleById", [saleId |-> saleId], getSaleByIdParams(saleId))

getSaleByKey ==
    \E purchaseKey \in PurchaseKeys :
        Call("getSaleByKey", [purchaseKey |-> purchaseKey], getSaleByKeyParams(purchaseKey))

searchSalesByEmail ==
    \E email \in Emails, number \in OptCounts, page \in OptPages :
        LET options == [number |-> number, page |-> page]
        IN  Call("searchSalesByEmail", [options |-> options, email |-> email],
                 searchSalesByEmailParams(email, options))

listCustomers ==
    \E number \in OptCounts, page \in OptPages :
        LET options == [number |-> number, page |-> page]
        IN  Call("listCustomers", options, listCustomersParams(options))

getCustomerById ==
    \E customerId \in Nums :
        Call("getCustomerById", [customerId |-> customerId], getCustomerByIdParams(customerId))

getCustomerByEmail ==
    \E email \in Emails :
        Call("getCustomerByEmail", [email |-> email], getCustomerByEmailParams(email))

getStats ==
    \E type \in StatsTypes :
        Call("getStats", [type |-> type], getStatsParams(type))

getStatsByDateRange ==
    \E type \in StatsTypes, startDate \in Dates, endDate \in Dates :
        Call("getStatsByDateRange", [type |-> type, startDate |-> startDate, endDate |-> endDate],
             getStatsByDateRangeParams(type, startDate, endDate))

getStatsByProduct ==
    \E type \in StatsTypes, productId \in OptNums :
        Call("getStatsByProduct", [productId |-> productId, type |-> type],
             getStatsByProductParams(type, productId))

listDiscounts ==
    \E number \in OptCounts :
        LET options == [number |-> number]
        IN  Call("listDiscounts", options, listDiscountsParams(options))

getDiscount ==
    \E discountId \in Nums :
        Call("getDiscount", [discountId |-> discountId], getDiscountParams(discountId))

getDownloadLogs ==
    \E number \in OptCounts, product \in OptNums, customer \in OptNums :
        LET options == [number |-> number, product |-> product, customer |-> customer]
        IN  Call("getDownloadLogs", options, getDownloadLogsParams(options))

\* NextAttempt whose loop never counts the attempt
NextAttemptNoCount(e, evs) ==
    /\ attempt' = attempt
    /\ IF LoopRuns(attempt, retries)
       THEN /\ events' = Append(evs, FetchEvent(url))
            /\ pc' = "attempting"
            /\ UNCHANGED <<outcome, result, toolResult>>
       ELSE /\ events' = evs
            /\ pc' = "done"
            /\ outcome' = Thrown(FinalError(e))
            /\ result' = Thrown(FinalError(e))
            /\ toolResult' = ToolFinish(tool, toolArgs, Thrown(FinalError(e)))

\* attempt++ and the loop condition: the next fetch, or the throw after the loop
NextAttempt(e, evs) ==
    /\ attempt' = attempt + 1
    /\ IF LoopRuns(attempt + 1, retries)
       THEN /\ events' = Append(evs, FetchEvent(url))
            /\ pc' = "attempting"
            /\ UNCHANGED <<outcome, result, toolResult>>
       ELSE /\ events' = evs
            /\ pc' = "done"
            /\ outcome' = Thrown(FinalError(e))
            /\ result' = Thrown(FinalError(e))
            /\ toolResult' = ToolFinish(tool, toolArgs, Thrown(FinalError(e)))

\* Settle giving up at once on a non-2xx status instead of retrying
SettleGivesUpOnHttp ==
    \E answer \in Answers :
        /\ pc = "attempting"
        /\ responses' = Append(responses, answer)
        /\ LET e == TryError(answer)
           IN  IF e = NoError
               THEN /\ outcome' = Returned(answer.body)
                    /\ result' = Unwrap(method, args, answer.body)
                    /\ toolResult' = ToolFinish(tool, toolArgs,
                                                 Unwrap(method, args, answer.body))
                    /\ pc' = "done"
                    /\ UNCHANGED <<lastError, attempt, events>>
               ELSE /\ lastError' = Caught(lastError, e)
                    /\ IF answer.kind = "response" /\ ~Ok(answer.status)
                       THEN /\ pc' = "done"
                            /\ outcome' = Thrown(e)
                            /\ result' = Thrown(e)
                            /\ toolResult' = ToolFinish(tool, toolArgs, Thrown(e))
                            /\ UNCHANGED <<attempt, events>>
                       ELSE IF WaitsAfter(attempt, retries)
                       THEN /\ events' = Append(events, WaitEvent(url, BackoffMs(attempt)))
                            /\ pc' = "waiting"
                            /\ UNCHANGED <<attempt, outcome, result, toolResult>>
                       ELSE NextAttempt(Caught(lastError, e), events)
        /\ UNCHANGED <<config, method, args, params, url, retries,
                       requests, tool, toolArgs, startup>>

\* the awaited fetch settles: the rest of the try block, the catch block, and,
\* when request() returns, the rest of the endpoint method
Settle ==
    \E answer \in Answers :
        /\ pc = "attempting"
        /\ responses' = Append(responses, answer)
        /\ LET e == TryError(answer)
           IN  IF e = NoError
               THEN /\ outcome' = Returned(answer.body)
                    /\ result' = Unwrap(method, args, answer.body)
                    /\ toolResult' = ToolFinish(tool, toolArgs,
                                                 Unwrap(method, args, answer.body))
                    /\ pc' = "done"
                    /\ UNCHANGED <<lastError, attempt, events>>
               ELSE /\ lastError' = Caught(lastError, e)
                    /\ IF WaitsAfter(attempt, retries)
                       THEN /\ events' = Append(events, WaitEvent(url, BackoffMs(attempt)))
                            /\ pc' = "waiting"
                            /\ UNCHANGED <<attempt, outcome, result, toolResult>>
                       ELSE NextAttempt(Caught(lastError, e), events)
        /\ UNCHANGED <<config, method, args, params, url, retries,
                       requests, tool, toolArgs, startup>>

\* the backoff timer fires
TimerFires ==
    /\ pc = "waiting"
    /\ NextAttempt(lastError, events)
    /\ UNCHANGED <<config, method, args, params, url, retries, lastError, responses,
                   requests, tool, toolArgs, startup>>

\* the caller has the result; the client is ready for the next invocation
Return ==
    /\ pc = "done"
    /\ pc' = "idle"
    /\ method' = "none"
    /\ args' = NoArgs
    /\ params' = <<>>
    /\ url' = NoUrl
    /\ retries' = 0
    /\ attempt' = 0
    /\ lastError' = NoError
    /\ events' = <<>>
    /\ responses' = <<>>
    /\ outcome' = Pending
    /\ result' = Pending
    /\ requests' = 0
    /\ tool' = "none"
    /\ toolArgs' = NoArgs
    /\ toolResult' = Pending
    /\ UNCHANGED <<config, startup>>

-----------------------------------------------------------------------------
(* Tool invocations (index.ts) *)

\* a handler up to the first await of its client call
ToolCall(t, ta, m, a, ps) ==
    /\ pc = "idle"
    /\ method' = m
    /\ args' = a
    /\ params' = ps
    /\ tool' = t
    /\ toolArgs' = ta
    /\ EnterRequest(MethodUrl(config, m, ps), DefaultRetries)

\* a handler that returns before calling the client
ToolReply(t, ta, content) ==
    /\ pc = "idle"
    /\ pc' = "done"
    /\ tool' = t
    /\ toolArgs' = ta
    /\ toolResult' = content
    /\ UNCHANGED <<config, method, args, params, url, retries, attempt, lastError,
                   events, responses, outcome, result, requests, startup>>

edd_list_products ==
    \E number \in OptCounts :
        LET options == [number |-> number, product |-> Undefined]
        IN  ToolCall("edd_list_products", [number |-> number],
                     "listProducts", options, <<P("number", number)>>)

edd_get_product ==
    \E productId \in Nums :
        ToolCall("edd_get_product", [productId |-> productId],
                 "getProduct", [productId |-> productId], getProductParams(productId))

edd_list_sales ==
    \E number \in OptCounts, page \in OptPages, email \in OptEmails,
       startDate \in OptDates, endDate \in OptDates :
        LET options == [number |-> Nullish(number, Num(10)), page |-> page, email |-> email,
                        startdate |-> startDate, enddate |-> endDate]
        IN  ToolCall("edd_list_sales",
                     [number |-> number, page |-> page, email |-> email,
                      startDate |-> startDate, endDate |-> endDate],
                     "listSales", options, listSalesParams(options))

edd_get_sale ==
    \E saleId \in OptNums, purchaseKey \in {Undefined, Str("")} \cup PurchaseKeys :
        LET ta == [saleId |-> saleId, purchaseKey |-> purchaseKey]
        IN  IF MissingBoth(saleId, purchaseKey)
            THEN ToolReply("edd_get_sale", ta, Text("Error: Either saleId or purchaseKey is required"))
            ELSE IF ById(saleId)
            THEN ToolCall("edd_get_sale", ta, "getSaleById",
                          [saleId |-> saleId], getSaleByIdParams(saleId))
            ELSE ToolCall("edd_get_sale", ta, "getSaleByKey",
                          [purchaseKey |-> purchaseKey], getSaleByKeyParams(purchaseKey))

edd_list_customers ==
    \E number \in OptCounts, page \in OptPages :
        LET options == [number |-> Nullish(number, Num(10)), page |-> page]
        IN  ToolCall("edd_list_customers", [number |-> number, page |-> page],
                     "listCustomers", options, listCustomersParams(options))

edd_get_customer ==
    \E customerId \in OptNums, email \in {Undefined, Str("")} \cup Emails :
        LET ta == [email |-> email, customerId |-> customerId]
        IN  IF MissingBoth(customerId, email)
            THEN ToolReply("edd_get_customer", ta, Text("Error: Either customerId or email is required"))
            ELSE IF ById(customerId)
            THEN ToolCall("edd_get_customer", ta, "getCustomerById",
                          [customerId |-> customerId], getCustomerByIdParams(customerId))
            ELSE ToolCall("edd_get_customer", ta, "getCustomerByEmail",
                          [email |-> email], getCustomerByEmailParams(email))

edd_get_stats ==
    \E type \in StatsTypes :
        ToolCall("edd_get_stats", [type |-> type],
                 "getStats", [type |-> type], getStatsParams(type))

edd_get_stats_by_date ==
    \E type \in StatsTypes, startDate \in Dates, endDate \in Dates :
        LET a == [type |-> type, startDate |-> startDate, endDate |-> endDate]
        IN  ToolCall("edd_get_stats_by_date", a, "getStatsByDateRange", a,
                     getStatsByDateRangeParams(type, startDate, endDate))

edd_get_stats_by_product ==
    \E type \in StatsTypes, productId \in OptNums :
        LET a == [productId |-> productId, type |-> type]
        IN  ToolCall("edd_get_stats_by_product", a, "getStatsByProduct", a,
                     getStatsByProductParams(type, productId))

edd_list_discounts ==
    \E number \in OptCounts :
        LET options == [number |-> number]
        IN  ToolCall("edd_list_discounts", options,
                     "listDiscounts", options, listDiscountsParams(options))

edd_get_discount ==
    \E discountId \in Nums :
        ToolCall("edd_get_discount", [discountId |-> discountId],
                 "getDiscount", [discountId |-> discountId], getDiscountParams(discountId))

edd_get_download_logs ==
    \E number \in OptCounts, productId \in OptNums, customerId \in OptNums :
        LET options == [number |-> Nullish(number, Num(10)), product |-> productId,
                        customer |-> customerId]
        IN  ToolCall("edd_get_download_logs",
                     [number |-> number, productId |-> productId, customerId |-> customerId],
                     "getDownloadLogs", options, getDownloadLogsParams(options))

Next ==
    \/ request
    \/ listProducts
    \/ getProduct
    \/ listSales
    \/ getSaleById
    \/ getSaleByKey
    \/ searchSalesByEmail
    \/ listCustomers
    \/ getCustomerById
    \/ getCustomerByEmail
    \/ getStats
    \/ getStatsByDateRange
    \/ getStatsByProduct
    \/ listDiscounts
    \/ getDiscount
    \/ getDownloadLogs
    \/ Settle
    \/ TimerFires
    \/ Return

Spec == Init /\ [][Next]_vars

\* the server serving tool invocations one after the other
ToolInvocation ==
    \/ edd_list_products
    \/ edd_get_product
    \/ edd_list_sales
    \/ edd_get_sale
    \/ edd_list_customers
    \/ edd_get_customer
    \/ edd_get_stats
    \/ edd_get_stats_by_date
    \/ edd_get_stats_by_product
    \/ edd_list_discounts
    \/ edd_get_discount
    \/ edd_get_download_logs

NextTools ==
    \/ ToolInvocation
    \/ Settle
    \/ TimerFires
    \/ Return

SpecTools == Init /\ [][NextTools]_vars

\* direct client calls and tool invocations together
NextAll ==
    \/ Next
    \/ ToolInvocation

SpecAll == Init /\ [][NextAll]_vars

-----------------------------------------------------------------------------
(* request() alone, with a transport and timers that eventually settle *)

NextLive ==
    \/ request
    \/ Settle
    \/ TimerFires
    \/ Return

\* every awaited fetch settles and every backoff timer fires
SpecLive == Init /\ [][NextLive]_vars /\ WF_vars(Settle) /\ WF_vars(TimerFires)

-----------------------------------------------------------------------------
(* Concurrent invocations: each call of request() has its own locals *)

Invocations == {1, 2}

\* the locals of one activation of request()
Locals(p, u, r, a, e, evs, rs, o) ==
    [pc |-> p, url |-> u, retries |-> r, attempt |-> a, lastError |-> e,
     events |-> evs, responses |-> rs, outcome |-> o]

NotRunning == Locals("idle", NoUrl, 0, 0, NoError, <<>>, <<>>, Pending)

\* request(url, retries) up to the first await
Activation(u, r) ==
    IF LoopRuns(1, r)
    THEN Locals("attempting", u, r, 1, NoError, <<FetchEvent(u)>>, <<>>, Pending)
    ELSE Locals("done", u, r, 1, NoError, <<>>, <<>>, Thrown(FinalError(NoError)))

\* attempt++ and the loop test: the next fetch, or the throw after the loop
Advance(st, e, evs) ==
    IF LoopRuns(st.attempt + 1, st.retries)
    THEN [st EXCEPT !.attempt = @ + 1, !.lastError = e,
                    !.events = Append(evs, FetchEvent(st.url)), !.pc = "attempting"]
    ELSE [st EXCEPT !.attempt = @ + 1, !.lastError = e, !.events = evs,
                    !.pc = "done", !.outcome = Thrown(FinalError(e))]

\* the awaited fetch of one activation settles
AfterSettle(st, answer) ==
    LET e == TryError(answer)
        seen == [st EXCEPT !.responses = Append(@, answer)]
    IN  IF e = NoError
        THEN [seen EXCEPT !.outcome = Returned(answer.body), !.pc = "done"]
        ELSE IF WaitsAfter(st.attempt, st.retries)
             THEN [seen EXCEPT !.lastError = Caught(st.lastError, e),
                               !.events = Append(@, WaitEvent(st.url, BackoffMs(st.attempt))),
                               !.pc = "waiting"]
             ELSE Advance(seen, Caught(st.lastError, e), st.events)

\* SettleIn with the attempt counter kept on the client instead of in the activation
SettleInSharedAttempt(invs, i, answer) ==
    [j \in DOMAIN invs |->
        IF j = i THEN AfterSettle(invs[i], answer)
        ELSE IF invs[j].pc = "idle" THEN invs[j]
        ELSE [invs[j] EXCEPT !.attempt = AfterSettle(invs[i], answer).attempt]]

\* a settling fetch resumes its own activation; the others are not touched
SettleIn(invs, i, answer) == [invs EXCEPT ![i] = AfterSettle(invs[i], answer)]

\* the transport answers used when two invocations run together
ConcAnswers ==
    {Reject(TRUE, "TypeError", "fetch failed"),
     Response(200, "OK", ErrorBody("Invalid API key")),
     Response(200, "OK", Envelope("sales", <<Rec(1)>>))}

InitConc ==
    /\ config \in Configs
    /\ pc = "idle"
    /\ method = "none"
    /\ args = NoArgs
    /\ params = <<>>
    /\ url = NoUrl
    /\ retries = 0
    /\ attempt = 0
    /\ lastError = NoError
    /\ events = <<>>
    /\ responses = <<>>
    /\ outcome = Pending
    /\ result = Pending
    /\ requests = 0
    /\ tool = "none"
    /\ toolArgs = NoArgs
    /\ toolResult = Pending
    /\ env = NoEnv
    /\ boot = [error |-> NoError, at |-> "off", missing |-> <<>>]
    /\ inv = [i \in Invocations |-> NotRunning]

\* a caller invokes request() while another invocation may be in flight
StartConc ==
    \E i \in Invocations, r \in 0..MaxRetries :
        /\ inv[i].pc = "idle"
        /\ inv' = [inv EXCEPT ![i] =
                      Activation(IF i = 1 THEN buildUrl(config, "sales", <<>>)
                                 ELSE buildPublicUrl(config, "products", <<>>), r)]
        /\ UNCHANGED <<config, client, env, boot>>

\* the transport settles the fetch of one of the invocations
SettleConc ==
    \E i \in Invocations, answer \in ConcAnswers :
        /\ inv[i].pc = "attempting"
        /\ inv' = SettleIn(inv, i, answer)
        /\ UNCHANGED <<config, client, env, boot>>

\* the backoff timer of one of the invocations fires
TimerConc ==
    \E i \in Invocations :
        /\ inv[i].pc = "waiting"
        /\ inv' = [inv EXCEPT ![i] = Advance(inv[i], inv[i].lastError, inv[i].events)]
        /\ UNCHANGED <<config, client, env, boot>>

\* the caller of one invocation has its outcome
ReturnConc ==
    \E i \in Invocations :
        /\ inv[i].pc = "done"
        /\ inv' = [inv EXCEPT ![i] = NotRunning]
        /\ UNCHANGED <<config, client, env, boot>>

NextConc ==
    \/ StartConc
    \/ SettleConc
    \/ TimerConc
    \/ ReturnConc

SpecConc == InitConc /\ [][NextConc]_vars

-----------------------------------------------------------------------------
(* Startup of the server process: loadEnv, validateEnv, new EDDClient, connect *)

\* a non-empty setting holding a URL
UrlStr(u) == [url |-> u, t |-> "string", s |-> u.origin]

\* what process.env can hold for the three settings: unset, empty, or a value;
\* the URLs are those of ApiUrls and one with a query
Settings ==
    [EDD_API_URL : {Undefined, Str("")}
                   \cup {UrlStr(u) : u \in ApiUrls}
                   \cup {UrlStr([origin |-> "https://example.com", path |-> <<"edd-api">>,
                                 slash |-> FALSE,
                                 query |-> <<[name |-> "v", value |-> "1"]>>])},
     EDD_API_KEY : {Undefined, Str(""), Str("test-key")},
     EDD_API_TOKEN : {Undefined, Str(""), Str("test-token")}]

NoConfig == [apiUrl |-> NoUrl, apiKey |-> "", apiToken |-> ""]

Booting(at, missing, error) == [error |-> error, at |-> at, missing |-> missing]

\* apiUrl.endsWith('/') on the text of the setting
EndsWithSlash(u) ==
    IF u.query = <<>> THEN u.slash
    ELSE u.query[Len(u.query)].value \in {"1/"}

\* `${apiUrl}/`: the "/" lands at the end of the text, in the query if there is one
WithSlash(u) ==
    IF u.query = <<>> THEN [u EXCEPT !.slash = TRUE]
    ELSE [u EXCEPT !.query[Len(u.query)].value = @ \o "/"]

\* IsMissing that accepts an empty setting
IsMissingUnsetOnly(v) == v = Undefined

\* !apiUrl, !apiKey, !apiToken
IsMissing(v) == ~Truthy(v)

\* the missing array of validateEnv, in push order
MissingOf(e) ==
    (IF IsMissing(e.EDD_API_URL) THEN <<"EDD_API_URL">> ELSE <<>>)
    \o (IF IsMissing(e.EDD_API_KEY) THEN <<"EDD_API_KEY">> ELSE <<>>)
    \o (IF IsMissing(e.EDD_API_TOKEN) THEN <<"EDD_API_TOKEN">> ELSE <<>>)

\* missing.join(', ')
RECURSIVE Join(_)
Join(names) ==
    IF names = <<>> THEN ""
    ELSE IF Len(names) = 1 THEN Head(names)
    ELSE Head(names) \o ", " \o Join(Tail(names))

\* the list line of the message validateEnv throws
MissingList(names) == "Missing required environment variables: " \o Join(names)

\* the message validateEnv throws
MissingMessage(names) ==
    MissingList(names) \o "\n\n"
    \o "Please set the following environment variables:\n"
    \o "  EDD_API_URL   - Your EDD store API URL (e.g., https://example.com/edd-api/)\n"
    \o "  EDD_API_KEY   - Your EDD API public key\n"
    \o "  EDD_API_TOKEN - Your EDD API token\n\n"
    \o "You can set these in a .env file or as system environment variables."

\* the config validateEnv returns
ValidatedConfig(e) ==
    [apiUrl |-> IF EndsWithSlash(e.EDD_API_URL.url) THEN e.EDD_API_URL.url
                ELSE WithSlash(e.EDD_API_URL.url),
     apiKey |-> e.EDD_API_KEY.s,
     apiToken |-> e.EDD_API_TOKEN.s]

\* the process has started; nothing of index.ts has run
InitStartup ==
    /\ env \in Settings
    /\ boot = Booting("start", <<>>, NoError)
    /\ config = NoConfig
    /\ pc = "off"
    /\ method = "none"
    /\ args = NoArgs
    /\ params = <<>>
    /\ url = NoUrl
    /\ retries = 0
    /\ attempt = 0
    /\ lastError = NoError
    /\ events = <<>>
    /\ responses = <<>>
    /\ outcome = Pending
    /\ result = Pending
    /\ requests = 0
    /\ tool = "none"
    /\ toolArgs = NoArgs
    /\ toolResult = Pending
    /\ inv = <<>>

\* loadEnv(): dotenv adds the settings of the file that process.env lacks
loadEnv ==
    \E file \in {NoEnv,
                [EDD_API_URL |-> UrlStr([origin |-> "https://example.com",
                                         path |-> <<"edd-api">>, slash |-> TRUE,
                                         query |-> <<>>]),
                 EDD_API_KEY |-> Str("test-key"), EDD_API_TOKEN |-> Undefined]} :
        /\ boot.at = "start"
        /\ env' = [n \in DOMAIN env |-> IF env[n] = Undefined THEN file[n] ELSE env[n]]
        /\ boot' = Booting("loaded", <<>>, NoError)
        /\ UNCHANGED <<config, client, inv>>

\* const config = validateEnv(): throws, which ends the process, or returns
validateEnv ==
    /\ boot.at = "loaded"
    /\ IF Len(MissingOf(env)) > 0
       THEN boot' = Booting("failed", MissingOf(env),
                            Err("Error", MissingMessage(MissingOf(env))))
       ELSE boot' = Booting("validated", <<>>, NoError)
    /\ UNCHANGED <<env, config, client, inv>>

\* const edd = new EDDClient(config)
Construct ==
    /\ boot.at = "validated"
    /\ config' = ValidatedConfig(env)
    /\ pc' = "idle"
    /\ boot' = Booting("constructed", <<>>, NoError)
    /\ UNCHANGED <<env, method, args, params, url, retries, attempt, lastError, events,
                   responses, outcome, result, requests, tool, toolArgs, toolResult, inv>>

\* main(): await server.connect(transport)
Connect ==
    /\ boot.at = "constructed"
    /\ boot' = Booting("connected", <<>>, NoError)
    /\ UNCHANGED <<env, config, client, inv>>

NextStartup ==
    \/ loadEnv
    \/ validateEnv
    \/ Construct
    \/ Connect

SpecStartup == InitStartup /\ [][NextStartup]_vars

-----------------------------------------------------------------------------
(* Vocabulary of the properties *)

IsFetch(i) == events[i].ev = "fetch"
IsWait(i) == events[i].ev = "wait"
Calls == Cardinality({i \in 1..Len(events) : IsFetch(i)})
Waits == Cardinality({i \in 1..Len(events) : IsWait(i)})
Settled == Len(responses)
LastResponse == responses[Len(responses)]

Failed(answer) == TryError(answer) # NoError
HttpFailure(answer) == answer.kind = "response" /\ answer.status \notin 200..299
AppFailure(answer) ==
    /\ answer.kind = "response"
    /\ answer.status = 200
    /\ answer.body.t = "object"
    /\ Has(answer.body, "error")
    /\ Get(answer.body, "error").t = "string"
    /\ Get(answer.body, "error").s # ""

InRequest == pc \in {"attempting", "waiting", "done"}

-----------------------------------------------------------------------------
\* C1: when every transport response of a request has a non-2xx status, the
\* request never returns a value, and once it has ended the transport was
\* invoked exactly `retries` times (3 for every endpoint method) and the
\* error raised is 'HTTP <status>: <statusText>' of the final response.
C1_AllHttpErrors ==
    (InRequest /\ Settled > 0 /\ \A i \in 1..Settled : HttpFailure(responses[i]))
    => /\ outcome.kind # "return"
       /\ pc = "done"
          => /\ Calls = retries
             /\ Settled = retries
             /\ method # "request" => Calls = 3
             /\ outcome.kind = "throw"
             /\ outcome.error.message =
                    "HTTP " \o ToString(LastResponse.status) \o ": " \o LastResponse.statusText

\* a default-budget request answered 500, 500, 503 has raised 'HTTP 503: ...'
C1_Witness ==
    /\ pc = "done"
    /\ method = "listCustomers"
    /\ Settled = 3
    /\ responses[1].status = 500
    /\ responses[2].status = 500
    /\ responses[3].status = 503
    /\ Calls = 3
    /\ outcome.kind = "throw"
    /\ outcome.error.message = "HTTP 503: Service Unavailable"

\* C2: when attempts 1 and 2 fail and attempt 3 succeeds, request() returns the
\* body of attempt 3, the transport was invoked exactly 3 times, and exactly
\* two waits happened, 1000 ms then 2000 ms, each between two attempts.
C2_FailFailSucceed ==
    (pc = "done" /\ Settled = 3 /\ Failed(responses[1]) /\ Failed(responses[2])
        /\ ~Failed(responses[3]))
    => /\ outcome = Returned(responses[3].body)
       /\ Calls = 3
       /\ Waits = 2
       /\ Len(events) = 5
       /\ IsFetch(1) /\ IsWait(2) /\ IsFetch(3) /\ IsWait(4) /\ IsFetch(5)
       /\ events[2].ms = 1000
       /\ events[4].ms = 2000

\* two network failures, then an empty products envelope: listProducts returns []
C2_Witness ==
    /\ pc = "done"
    /\ method = "listProducts"
    /\ Settled = 3
    /\ responses[1].kind = "reject"
    /\ responses[2].kind = "reject"
    /\ responses[3] = Response(200, "OK", Envelope("products", <<>>))
    /\ result = Returned(Arr(<<>>))
    /\ Calls = 3
    /\ Waits = 2

C4_BackoffSchedule ==
    (InRequest /\ retries >= 1)
    => /\ \A i \in 1..Len(events) :
            /\ (i % 2 = 1) => IsFetch(i)
            /\ (i % 2 = 0) => (IsWait(i) /\ events[i].ms = (2 ^ ((i \div 2) - 1)) * 1000
                                /\ Failed(responses[i \div 2]))
       /\ Len(events) <= 2 * retries - 1
       /\ \A a \in 1..Settled :
            /\ (Failed(responses[a]) /\ a < retries) => (Len(events) >= 2 * a /\ IsWait(2 * a))
            /\ ~Failed(responses[a]) => (Len(events) = 2 * a - 1 /\ pc = "done")
       /\ pc = "done" => IsFetch(Len(events))

\* a budget of 4 exhausted: waits of 1 s, 2 s and 4 s, none after attempt 4
C4_Witness ==
    /\ pc = "done"
    /\ retries = 4
    /\ Settled = 4
    /\ outcome.kind = "throw"
    /\ Len(events) = 7
    /\ events[2].ms = 1000
    /\ events[4].ms = 2000
    /\ events[6].ms = 4000

\* C5: when all attempts of a request fail, the error raised is the error of
\* the last attempt.
C5_LastErrorRaised ==
    (pc = "done" /\ outcome.kind = "throw" /\ Settled > 0)
    => /\ Failed(LastResponse)
       /\ outcome.error = TryError(LastResponse)
       /\ result = outcome

\* HTTP 500, then HTTP 503, then a transport failure: the transport failure surfaces
C5_Witness ==
    /\ pc = "done"
    /\ Settled = 3
    /\ responses[1].status = 500
    /\ responses[2].status = 503
    /\ responses[3] = Reject(TRUE, "TypeError", "fetch failed")
    /\ outcome = Thrown(Err("TypeError", "fetch failed"))

\* the URLs the transport has been handed in the current invocation
FetchedUrls == {events[i].url : i \in {j \in 1..Len(events) : IsFetch(j)}}

\* C6: every URL an authenticated endpoint method hands to the transport
\* carries key = the configured public key and token = the configured token.
C6_AuthOnEveryAuthenticatedUrl ==
    method \in AuthMethods
    => \A u \in FetchedUrls :
          /\ QueryValues(u, "key") = {config.apiKey}
          /\ QueryValues(u, "token") = {config.apiToken}

\* C7: no URL that listProducts or getProduct hands to the transport has a
\* key or a token query parameter, nor carries a configured credential.
C7_NoAuthOnProducts ==
    method \in PublicMethods
    => \A u \in FetchedUrls :
          /\ QueryCount(u, "key") = 0
          /\ QueryCount(u, "token") = 0
          /\ \A i \in 1..Len(u.query) : u.query[i].value \notin {config.apiKey, config.apiToken}

\* getProduct(42) went out as products/?product=42
C7_Witness ==
    /\ method = "getProduct"
    /\ args.productId = Num(42)
    /\ Calls >= 1
    /\ events[1].url.path[Len(events[1].url.path)] = "products"
    /\ events[1].url.query = <<[name |-> "product", value |-> "42"]>>

\* C8: of the parameter map an endpoint method gives to buildUrl or
\* buildPublicUrl, a parameter whose value is undefined is no query parameter
\* of the URL, and a parameter with a defined value is a query parameter
\* exactly once, with the string form of its value.
C8_ParamsInUrl ==
    (method \in AuthMethods \cup PublicMethods)
    => \A i \in 1..Len(params) :
          IF params[i].v = Undefined
          THEN QueryCount(url, params[i].k) = 0
          ELSE /\ QueryCount(url, params[i].k) = 1
               /\ QueryValues(url, params[i].k) =
                      {IF params[i].v.t = "number" THEN ToString(params[i].v.n)
                       ELSE params[i].v.s}

\* listSales({number: 5, page: undefined, email: 'a@b.co', ...}): number=5 and
\* email are in the URL, page is not
C8_Witness ==
    /\ method = "listSales"
    /\ args.number = Num(5)
    /\ args.page = Undefined
    /\ args.email = Str("a@b.co")
    /\ QueryValues(url, "number") = {"5"}
    /\ QueryValues(url, "email") = {"a@b.co"}
    /\ QueryCount(url, "page") = 0
    /\ Calls >= 1

\* the envelope field each single-entity lookup reads
LookupField(m) ==
    CASE m = "getProduct" -> "products"
      [] m \in {"getSaleById", "getSaleByKey"} -> "sales"
      [] m \in {"getCustomerById", "getCustomerByEmail"} -> "customers"
      [] m = "getDiscount" -> "discounts"

\* C9: when the request succeeds and the resource array of the envelope is
\* empty, getProduct, getCustomerById, getSaleById and getDiscount return
\* null; when it is non-empty they return its first element.
C9_FirstOrNull ==
    (/\ pc = "done"
     /\ method \in {"getProduct", "getCustomerById", "getSaleById", "getDiscount"}
     /\ outcome.kind = "return"
     /\ Get(outcome.value, LookupField(method)).t = "array")
    => LET items == Get(outcome.value, LookupField(method)).items
       IN  IF Len(items) = 0
           THEN result = Returned(Null)
           ELSE result = Returned(items[1])

\* getProduct answered with an empty products array has returned null
C9_Witness ==
    /\ pc = "done"
    /\ method = "getProduct"
    /\ LastResponse = Response(200, "OK", Envelope("products", <<>>))
    /\ result = Returned(Null)

\* C10: for every single-entity lookup, a successful response whose envelope
\* lacks the resource field yields null and is never raised as an error.
C10_AbsentFieldIsNull ==
    (/\ pc = "done"
     /\ method \in {"getProduct", "getSaleById", "getSaleByKey",
                    "getCustomerById", "getCustomerByEmail", "getDiscount"}
     /\ outcome.kind = "return"
     /\ ~Has(outcome.value, LookupField(method)))
    => result = Returned(Null)

\* the keys of an object
Keys(obj) == {obj.entries[i].k : i \in 1..Len(obj.entries)}

\* C11: getStatsByDateRange returns exactly the entries of the flat response
\* whose key is neither request_speed nor totals, each once and with its value
\* unchanged; neither excluded key is in the result.
C11_DateRangeEntries ==
    (pc = "done" /\ method = "getStatsByDateRange" /\ outcome.kind = "return")
    => /\ result.kind = "return"
       /\ result.value.t = "object"
       /\ Keys(result.value) = Keys(outcome.value) \ {"request_speed", "totals"}
       /\ \A k \in Keys(result.value) : Get(result.value, k) = Get(outcome.value, k)
       /\ Len(result.value.entries) = Cardinality(Keys(result.value))
       /\ "request_speed" \notin Keys(result.value)
       /\ "totals" \notin Keys(result.value)

\* the two daily values came back, timing and totals did not
C11_Witness ==
    /\ pc = "done"
    /\ method = "getStatsByDateRange"
    /\ Has(outcome.value, "totals")
    /\ Has(outcome.value, "request_speed")
    /\ result = Returned(Obj(<<[k |-> "2025-01-01", v |-> Num(100)],
                               [k |-> "2025-01-02", v |-> Num(150)]>>))

IsProductField(e) == e.k # "request_speed" /\ e.v.t = "number"

\* C12: getStatsByProduct returns, in the field order of the response, one
\* {name, value} pair for every numeric field not named request_speed, and
\* nothing else.
C12_ProductPairs ==
    (pc = "done" /\ method = "getStatsByProduct" /\ outcome.kind = "return")
    => LET kept == SelectSeq(outcome.value.entries, IsProductField)
       IN  /\ result.kind = "return"
           /\ result.value.t = "array"
           /\ Len(result.value.items) = Len(kept)
           /\ \A i \in 1..Len(kept) :
                 /\ Get(result.value.items[i], "name") = Str(kept[i].k)
                 /\ Get(result.value.items[i], "value") = kept[i].v

\* a response with a numeric totals field: totals is kept, request_speed is not
C12_Witness ==
    /\ pc = "done"
    /\ method = "getStatsByProduct"
    /\ Has(outcome.value, "totals")
    /\ Has(outcome.value, "request_speed")
    /\ Len(result.value.items) = 3
    /\ Get(result.value.items[3], "name") = Str("totals")

\* C13: for each type and statistics object X, getStats(type) returns {type: X}
\* both for the wrapper {stats: {type: X}} and for the flat {type: X,
\* request_speed: n}; the result never has a request_speed field.
C13_StatsShapes ==
    (pc = "done" /\ method = "getStats" /\ outcome.kind = "return")
    => LET ty == args.type
           data == outcome.value
       IN  /\ (\E X \in {StatObj} :
                  \/ data = Obj(<<[k |-> "stats", v |-> Obj(<<[k |-> ty, v |-> X]>>)]>>)
                  \/ data = Obj(<<[k |-> ty, v |-> X], Speed>>))
              => result = Returned(Obj(<<[k |-> ty, v |-> StatObj]>>))
           /\ \A X \in {StatObj} :
                 (\/ data = Obj(<<[k |-> "stats", v |-> Obj(<<[k |-> ty, v |-> X]>>)]>>)
                  \/ data = Obj(<<[k |-> ty, v |-> X], Speed>>))
                 => Get(result.value, ty) = X
           /\ result.kind = "return"
           /\ ~Has(result.value, "request_speed")

\* getStats('earnings') on the flat shape has returned {earnings: X}
C13_Witness ==
    /\ pc = "done"
    /\ method = "getStats"
    /\ args.type = "earnings"
    /\ outcome.value = Obj(<<[k |-> "earnings", v |-> StatObj], Speed>>)
    /\ result = Returned(Obj(<<[k |-> "earnings", v |-> StatObj]>>))

\* C14: edd_get_sale invoked with neither saleId nor purchaseKey, and
\* edd_get_customer with neither customerId nor email, hand back a text
\* saying that one of the two is required, raise nothing and issue no request.
C14_MissingParameterMessage ==
    /\ (tool = "edd_get_sale" /\ toolArgs.saleId = Undefined /\ toolArgs.purchaseKey = Undefined)
       => /\ pc = "done"
          /\ toolResult = [kind |-> "content", text |-> Str("Error: Either saleId or purchaseKey is required"),
                           error |-> NoError]
          /\ requests = 0
          /\ events = <<>>
    /\ (tool = "edd_get_customer" /\ toolArgs.customerId = Undefined /\ toolArgs.email = Undefined)
       => /\ pc = "done"
          /\ toolResult = [kind |-> "content", text |-> Str("Error: Either customerId or email is required"),
                           error |-> NoError]
          /\ requests = 0
          /\ events = <<>>

\* edd_get_customer({}) has answered with the message, without any request
C14_Witness ==
    /\ tool = "edd_get_customer"
    /\ toolArgs = [email |-> Undefined, customerId |-> Undefined]
    /\ pc = "done"
    /\ toolResult.kind = "content"
    /\ requests = 0

MissingMessages ==
    {Str("Error: Either saleId or purchaseKey is required"),
     Str("Error: Either customerId or email is required")}

\* the 'not found' text of each single-entity tool
NotFoundText ==
    CASE tool = "edd_get_product" -> Str("Product " \o ToString(toolArgs.productId.n) \o " not found")
      [] tool = "edd_get_sale" -> Str("Sale not found")
      [] tool = "edd_get_customer" -> Str("Customer not found")
      [] tool = "edd_get_discount" -> Str("Discount " \o ToString(toolArgs.discountId.n) \o " not found")

\* C15: when the client lookup behind edd_get_product, edd_get_sale,
\* edd_get_customer or edd_get_discount returns null, the tool hands back a
\* text content with its 'not found' message, which is not the
\* missing-parameter message, and raises nothing.
C15_NotFoundMessage ==
    (/\ pc = "done"
     /\ tool \in {"edd_get_product", "edd_get_sale", "edd_get_customer", "edd_get_discount"}
     /\ result = Returned(Null))
    => /\ toolResult.kind = "content"
       /\ toolResult.error = NoError
       /\ toolResult.text = NotFoundText
       /\ toolResult.text \notin MissingMessages

\* edd_get_sale by purchase key on an empty sales array: 'Sale not found'
C15_Witness ==
    /\ pc = "done"
    /\ tool = "edd_get_sale"
    /\ method = "getSaleByKey"
    /\ result = Returned(Null)
    /\ toolResult.text = Str("Sale not found")

\* C18 as stated: every endpoint method and every tool invocation calls
\* request() exactly once and so issues between 1 and 3 GETs.
C18_OneRequestPerInvocation ==
    (pc = "done" /\ (tool # "none" \/ method \in AuthMethods \cup PublicMethods))
    => /\ requests = 1
       /\ Calls \in 1..3

\* C18, amended: every endpoint method, and every tool invocation that gets
\* past the missing-parameter check of edd_get_sale / edd_get_customer, calls
\* request() exactly once and issues between 1 and 3 GETs; an error of
\* request() reaches the tool layer only after 3 failed attempts, and the
\* tool hands it on without a further request.  A tool invocation stopped by
\* the missing-parameter check issues no request at all.
C18_OneRequestUnlessRejected ==
    /\ requests <= 1
    /\ (method \in AuthMethods \cup PublicMethods)
       => /\ requests = 1
          /\ Calls \in 1..3
          /\ Calls <= Settled + 1
          /\ outcome.kind = "throw"
             => /\ Calls = 3
                /\ Settled = 3
                /\ \A i \in 1..3 : Failed(responses[i])
                /\ result = outcome
                /\ tool # "none" => toolResult = outcome
    /\ (pc = "done" /\ tool # "none" /\ method = "none")
       => /\ tool \in {"edd_get_sale", "edd_get_customer"}
          /\ requests = 0
          /\ Calls = 0
          /\ toolResult.text \in MissingMessages

\* a tool invocation whose three attempts failed has handed the error on
C18_Witness ==
    /\ pc = "done"
    /\ tool = "edd_get_sale"
    /\ method = "getSaleById"
    /\ requests = 1
    /\ Calls = 3
    /\ toolResult.kind = "throw"
    /\ toolResult.error.message = "HTTP 503: Service Unavailable"

SettingNames == {"EDD_API_URL", "EDD_API_KEY", "EDD_API_TOKEN"}

\* the settings that are unset or empty
MissingSettings == {n \in SettingNames : env[n] = Undefined \/ env[n] = Str("")}

Listed == {boot.missing[i] : i \in 1..Len(boot.missing)}

\* C16: validateEnv throws exactly when some setting is unset or empty; the
\* list of its message names every missing setting once and no present one;
\* after the throw no client is constructed and the server never connects.
C16_MissingSettings ==
    /\ boot.at \in {"validated", "constructed", "connected"} => MissingSettings = {}
    /\ boot.at = "failed"
       => /\ MissingSettings # {}
          /\ Listed = MissingSettings
          /\ Len(boot.missing) = Cardinality(MissingSettings)
          /\ boot.error.message = MissingMessage(boot.missing)
          /\ config = NoConfig
          /\ pc = "off"
    /\ (boot.at = "loaded" /\ MissingSettings # {}) => ~ENABLED Construct
    /\ config # NoConfig => boot.at \in {"constructed", "connected"}

\* key set, URL unset and token empty: the message lists the URL and the token
C16_Witness ==
    /\ boot.at = "failed"
    /\ env.EDD_API_URL = Undefined
    /\ env.EDD_API_KEY = Str("test-key")
    /\ env.EDD_API_TOKEN = Str("")
    /\ MissingList(boot.missing) = "Missing required environment variables: EDD_API_URL, EDD_API_TOKEN"
    /\ boot.error.message = MissingMessage(boot.missing)
    /\ config = NoConfig

\* C17: the base URL a client resolves endpoints against ends with "/", so
\* that an endpoint resolves beneath the configured API path.
C17_BaseUrlEndsWithSeparator ==
    /\ (pc # "off" /\ config # NoConfig) => config.apiUrl.slash
    /\ (method \in AuthMethods \cup PublicMethods)
       => url.path = config.apiUrl.path \o <<Endpoint(method)>>

\* one activation run with nothing else in flight, fed the given transport
\* answers in order; its timers fire when fire is TRUE
RECURSIVE RunAlone(_, _, _)
RunAlone(st, answers, fire) ==
    IF st.pc = "attempting" /\ answers # <<>>
    THEN RunAlone(AfterSettle(st, Head(answers)), Tail(answers), fire)
    ELSE IF st.pc = "waiting" /\ (answers # <<>> \/ fire)
    THEN RunAlone(Advance(st, st.lastError, st.events), answers, fire)
    ELSE st

FetchesOf(st) == Cardinality({k \in 1..Len(st.events) : st.events[k].ev = "fetch"})
DelaysOf(st) == [k \in {j \in 1..Len(st.events) : st.events[j].ev = "wait"} |-> st.events[k].ms]

\* every running invocation is where it would be had it run alone
AsAlone ==
    \A i \in Invocations :
        inv[i].pc # "idle"
        => LET alone == RunAlone(Activation(inv[i].url, inv[i].retries),
                                 inv[i].responses, inv[i].pc # "waiting")
           IN  /\ inv[i].attempt = alone.attempt
               /\ FetchesOf(inv[i]) = FetchesOf(alone)
               /\ DelaysOf(inv[i]) = DelaysOf(alone)
               /\ inv[i].outcome = alone.outcome
               /\ inv[i].pc = alone.pc

\* C19: with two invocations interleaved in any order, each one's attempt
\* count, delay sequence and outcome are those of the same invocation run
\* alone against the same transport answers, and no step changes the
\* configuration of the client.
C19_Independent == []AsAlone /\ [][config' = config]_vars

\* both in flight: one waits after its first failure while the other is on its third attempt
C19_Witness ==
    /\ inv[1].pc = "waiting"
    /\ Len(inv[1].responses) = 1
    /\ inv[2].pc = "attempting"
    /\ inv[2].attempt = 3
    /\ Len(inv[2].responses) = 2

\* C20: when every fetch and every backoff wait settles, a call of request()
\* ends, either with a value returned or with an error raised and never with
\* both, and by then the transport was invoked at most `retries` times.
C20_Terminates ==
    /\ [](Calls <= retries)
    /\ [](pc = "done" => \/ outcome.kind = "return" /\ outcome.error = NoError
                         \/ outcome.kind = "throw" /\ outcome.error # NoError)
    /\ [](pc \in {"attempting", "waiting"} => outcome = Pending)
    /\ (pc \in {"attempting", "waiting"}) ~> (pc = "done")

\* exhausted after MaxRetries failed transport calls
C20_Witness ==
    /\ method = "request"
    /\ pc = "done"
    /\ retries = MaxRetries
    /\ Calls = MaxRetries
    /\ outcome.kind = "throw"

\* the responses with every failed one replaced by one and the same transport failure
Canon(answers) ==
    [i \in 1..Len(answers) |->
        IF Failed(answers[i]) THEN Reject(TRUE, "TypeError", "fetch failed") ELSE answers[i]]

\* the delays of the current request, in order
Delays == [k \in {j \in 1..Len(events) : IsWait(j)} |-> events[k].ms]

\* C21: the number of transport invocations and the sequence of backoff delays
\* of a request are those of the request whose failed attempts are all
\* transport failures and whose first success is at the same position, so that
\* two requests differing only in the classes of their failures (transport,
\* non-2xx status, 200 with an error body) cannot be told apart by either.
C21_ClassBlind ==
    InRequest
    => LET same == RunAlone(Activation(url, retries), Canon(responses), pc # "waiting")
       IN  /\ Calls = FetchesOf(same)
           /\ Delays = DelaysOf(same)
           /\ pc = same.pc
           /\ outcome.kind = same.outcome.kind

\* exhausted by a transport failure, an HTTP 500 and an error body, in that order
C21_Witness ==
    /\ pc = "done"
    /\ Settled = 3
    /\ responses[1].kind = "reject"
    /\ HttpFailure(responses[2])
    /\ AppFailure(responses[3])
    /\ Calls = 3
    /\ Delays = (2 :> 1000) @@ (4 :> 2000)
    /\ outcome.kind = "throw"

\* C22: a request ends at its first successful attempt: the successful response
\* is the last one settled, no fetch and no wait follows it, the value returned
\* is its body, and every fetch of the request went to the same URL with GET.
C22_ReturnsAtFirstSuccess ==
    /\ [](InRequest
          => /\ \A i \in 1..Settled :
                  ~Failed(responses[i])
                  => /\ i = Settled
                     /\ pc = "done"
                     /\ outcome = Returned(responses[i].body)
                     /\ Calls = Settled
                     /\ Len(events) = 2 * Settled - 1
             /\ \A i \in 1..Len(events) :
                  IsFetch(i) => (events[i].url = url /\ events[i].httpMethod = "GET"))
    /\ [][(pc = "done" /\ outcome.kind = "return")
          => (events' = events /\ responses' = responses) \/ pc' = "idle"]_vars

\* a success at the second attempt: two fetches of one URL, one wait, body returned
C22_Witness ==
    /\ pc = "done"
    /\ method = "listSales"
    /\ Settled = 2
    /\ Failed(responses[1])
    /\ ~Failed(responses[2])
    /\ outcome = Returned(responses[2].body)
    /\ Calls = 2
    /\ Len(events) = 3
    /\ events[1].url = events[3].url

\* a 200 response whose body has an error field holding a string
ErrorEnvelope(answer) ==
    /\ answer.kind = "response"
    /\ answer.status = 200
    /\ answer.body.t = "object"
    /\ Has(answer.body, "error")
    /\ Get(answer.body, "error").t = "string"

\* C23: an attempt answered HTTP 200 with a body whose error field holds a
\* string, the empty string included, does not succeed: the body is never the
\* value request() returns.
C23_ErrorFieldAlwaysFails ==
    (InRequest /\ Settled > 0 /\ ErrorEnvelope(LastResponse))
    => /\ outcome.kind # "return"
       /\ Failed(LastResponse)

GenericError == Err("Error", "Request failed after retries")

\* C25: a request that ends with the error 'Request failed after retries' had
\* a budget below 1 and never invoked the transport; a request with a budget
\* below 1 ends with exactly that error; an exhausted request with a budget of
\* at least 1 raises the error it captured at its last attempt.
C25_GenericErrorOnlyWithoutBudget ==
    (InRequest /\ pc = "done")
    => /\ (outcome.kind = "throw" /\ outcome.error = GenericError)
          <=> retries < 1
       /\ retries < 1 => (Calls = 0 /\ Settled = 0 /\ events = <<>>)
       /\ (retries >= 1 /\ outcome.kind = "throw")
          => (lastError # NoError /\ outcome.error = lastError /\ Calls = retries)

\* request(url, 0) has raised the generic error without a fetch
C25_Witness ==
    /\ pc = "done"
    /\ method = "request"
    /\ retries = 0
    /\ Calls = 0
    /\ outcome = Thrown(GenericError)

\* C26: in edd_get_sale and edd_get_customer a supplied numeric ID, 0
\* included, leads to the lookup by ID with one client call, whatever the
\* alternate key; the lookup by the alternate key and the missing-parameter
\* message happen only when no ID was supplied.
C26_IdLookupForEveryNumber ==
    /\ tool = "edd_get_sale"
       => /\ toolArgs.saleId.t = "number"
             => (method = "getSaleById" /\ args.saleId = toolArgs.saleId /\ requests = 1)
          /\ method \in {"getSaleByKey", "none"} => toolArgs.saleId = Undefined
    /\ tool = "edd_get_customer"
       => /\ toolArgs.customerId.t = "number"
             => (method = "getCustomerById" /\ args.customerId = toolArgs.customerId
                 /\ requests = 1)
          /\ method \in {"getCustomerByEmail", "none"} => toolArgs.customerId = Undefined

ListMethods ==
    {"listProducts", "listSales", "searchSalesByEmail", "listCustomers", "listDiscounts",
     "getDownloadLogs"}

\* the envelope field each list method reads
ListField(m) ==
    CASE m = "listProducts" -> "products"
      [] m \in {"listSales", "searchSalesByEmail"} -> "sales"
      [] m = "listCustomers" -> "customers"
      [] m = "listDiscounts" -> "discounts"
      [] m = "getDownloadLogs" -> "download_logs"

\* C27: on every successful response a list method returns a sequence: the
\* resource array of the envelope when the field is there, the empty sequence
\* when it is absent, and never undefined.
C27_ListsAreSequences ==
    (pc = "done" /\ method \in ListMethods /\ outcome.kind = "return")
    => /\ (Has(outcome.value, ListField(method))
           /\ Get(outcome.value, ListField(method)).t = "array")
          => result = Returned(Get(outcome.value, ListField(method)))
       /\ ~Has(outcome.value, ListField(method)) => result = Returned(Arr(<<>>))
       /\ result.kind = "return" => result.value # Undefined

\* a 2xx response whose body cannot be decoded, or decodes to null
DecodeFailure(answer) ==
    /\ answer.kind = "response"
    /\ answer.status \in 200..299
    /\ answer.body \in {InvalidJson, Null}

\* C28: an attempt whose 2xx body cannot be decoded (or decodes to null) fails
\* like any other: it is never the value returned, it is followed by the
\* backoff wait of its position when attempts remain, and request() raises
\* only once the budget is used up, with the decode error of the last attempt.
C28_DecodeFailureRetried ==
    (InRequest /\ Settled > 0 /\ DecodeFailure(LastResponse))
    => /\ Failed(LastResponse)
       /\ outcome.kind # "return"
       /\ Calls >= Settled
       /\ Settled < retries
          => /\ pc \in {"waiting", "attempting"}
             /\ outcome = Pending
             /\ Len(events) >= 2 * Settled
             /\ IsWait(2 * Settled)
             /\ events[2 * Settled].ms = (2 ^ (Settled - 1)) * 1000
       /\ Settled >= retries
          => /\ pc = "done"
             /\ Settled = retries
             /\ Calls = retries
             /\ outcome = Thrown(TryError(LastResponse))
             /\ outcome.error.name \in {"SyntaxError", "TypeError"}
             /\ result = outcome

\* an HTML page, then null, then an HTML page again: the SyntaxError of the
\* third attempt is raised after waits of 1 s and 2 s
C28_Witness ==
    /\ pc = "done"
    /\ method = "listProducts"
    /\ Settled = 3
    /\ responses[1] = Response(200, "OK", InvalidJson)
    /\ responses[2] = Response(200, "OK", Null)
    /\ responses[3] = Response(200, "OK", InvalidJson)
    /\ Calls = 3
    /\ Delays = (2 :> 1000) @@ (4 :> 2000)
    /\ outcome.kind = "throw"
    /\ outcome.error.name = "SyntaxError"

====
